---- MODULE Spec2Model ----
(***************************************************************************)
(* Model of blub::procedural::voxel::tile::accessor<configType>            *)
(* (modules/procedural/source/blub/procedural/voxel/tile/accessor.hpp):    *)
(* the per-tile voxel cache with its haloed main array, the six optional   *)
(* level-of-detail planes, the two "larger zero" counters and the          *)
(* serialization hooks.                                                    *)
(*                                                                         *)
(* A voxel sample (t_voxel) is modelled by its interpolation scalar; a     *)
(* 3-D position is a tuple <<x, y, z>>, a 2-D one a tuple <<x, y>>.        *)
(* An accessor object is a record with the members' names; the VARIABLES   *)
(* are the members of the one instance under study.                        *)
(***************************************************************************)
EXTENDS Integers, Sequences, FiniteSets, TLC

VARIABLES
    \* the members of the accessor under study
    m_voxels, m_voxelsLod, m_calculateLod,
    m_numVoxelLargerZero, m_numVoxelLargerZeroLod,
    \* the call made last: its operation, what it returned, the BASSERT that
    \* stopped it ("" when none did) and whether its behaviour was undefined
    last,
    \* the inputs of a run: the 3-D positions its setVoxel calls use and the
    \* <<position, face>> pairs its setVoxelLod calls use
    positions, lodCalls,
    \* the build: TRUE when BASSERT checks its condition, FALSE when the macro
    \* is compiled out
    BASSERT_checked

members == <<m_voxels, m_voxelsLod, m_calculateLod,
             m_numVoxelLargerZero, m_numVoxelLargerZeroLod>>
vars == <<last, m_voxels, m_voxelsLod, m_calculateLod,
          m_numVoxelLargerZero, m_numVoxelLargerZeroLod,
          positions, lodCalls, BASSERT_checked>>

(***************************************************************************)
(* Bounds of the model.                                                    *)
(***************************************************************************)
\* the interpolation scalars run over -MaxInterpolation-1 .. MaxInterpolation
\* (a signed integer's range, as int8's -128 .. 127)
MaxInterpolation == 1
\* the counters are explored up to this value
MaxCount == 2
\* the length a caller resizes the main array to through getVoxelArray()
ResizedLength == 20

(***************************************************************************)
(* The configuration and the constants derived from it.                    *)
(***************************************************************************)
\* t_config::voxelsPerTile of the configuration the template is built with
voxelsPerTile == 1
voxelLength == voxelsPerTile
voxelLengthWithNormalCorrection == voxelLength + 3
voxelLengthLod == (voxelLength + 1) * 2
voxelCount == voxelLengthWithNormalCorrection * voxelLengthWithNormalCorrection
                * voxelLengthWithNormalCorrection
voxelCountLod == voxelLengthLod * voxelLengthLod
voxelCountLodAll == 6 * voxelCountLod
voxelLengthSurface == voxelsPerTile + 1
voxelCountSurface == voxelLengthSurface * voxelLengthSurface * voxelLengthSurface

(***************************************************************************)
(* Voxel samples and vectors (types of the library the accessor uses).     *)
(***************************************************************************)
t_voxel == (0 - MaxInterpolation - 1) .. MaxInterpolation
\* t_voxel(): the default-constructed sample, the minimum (empty) one
t_voxel_default == 0 - MaxInterpolation - 1
getInterpolation(v) == v

\* vector3int32(val): the same value on every axis
vector3int32(val) == <<val, val, val>>
\* componentwise comparison of two 3-D vectors
vector3_ge(a, b) == a[1] >= b[1] /\ a[2] >= b[2] /\ a[3] >= b[3]
vector3_lt(a, b) == a[1] < b[1] /\ a[2] < b[2] /\ a[3] < b[3]
\* comparison of a 2-D vector with a scalar (converted to a vector)
vector2_ge(a, val) == a[1] >= val /\ a[2] >= val
vector2_lt(a, val) == a[1] < val /\ a[2] < val

\* blub::scopedPointer<t_voxelArrayLod>: the null pointer, the pointer that
\* owns an array (reset(new t_voxelArrayLod(...))), and the array a pointer
\* points to (*m_voxelsLod); the pointer to an empty array is not null
nullptr == <<>>
scopedPointer(array) == <<array>>
pointee(pointer) == pointer[1]

\* the largest value of an int32, the type of the two counters
int32_max == 2147483647

\* what is known of a value after undefined behaviour: nothing
unknown == "unknown"

(***************************************************************************)
(* Construction.                                                           *)
(***************************************************************************)
\* vector<t_voxel>(n): n default-constructed samples, indexed from 0
t_voxelArray(n) == [i \in 0 .. (n - 1) |-> t_voxel_default]

\* (mutant) the constructor leaving the surface counter at the full count
accessor_counted == [m_voxels |-> t_voxelArray(voxelCount),
                     m_voxelsLod |-> nullptr,
                     m_calculateLod |-> FALSE,
                     m_numVoxelLargerZero |-> voxelCountSurface,
                     m_numVoxelLargerZeroLod |-> 0]

\* accessor(): the members as the constructor's initializer list sets them
accessor == [m_voxels |-> t_voxelArray(voxelCount),
             m_voxelsLod |-> nullptr,
             m_calculateLod |-> FALSE,
             m_numVoxelLargerZero |-> 0,
             m_numVoxelLargerZeroLod |-> 0]

create == accessor

\* the outcome of a call: the object afterwards, the returned value, the
\* assertion that failed ("" when none did), and whether the call's behaviour
\* is undefined (an access outside an array or through the null pointer, the
\* increment of a counter that holds int32_max); a is then the object when
\* the undefined step is made, and the returned value is unknown
Done(a, ret) == [acc |-> a, ret |-> ret, assert |-> "", undefined |-> FALSE]
Failed(a, what) == [acc |-> a, ret |-> FALSE, assert |-> what, undefined |-> FALSE]
Undefined(a) == [acc |-> a, ret |-> unknown, assert |-> "", undefined |-> TRUE]
\* a call that returns a sample and stops at a failed assertion returns none
NoSample(r) == [r EXCEPT !.ret = t_voxel_default]

\* BASSERT: given the first of a call's conditions that does not hold (""
\* when all hold), the condition the build stops the call at
BASSERT(failed) == IF BASSERT_checked THEN failed ELSE ""

(***************************************************************************)
(* The main array.                                                         *)
(***************************************************************************)
\* the BASSERTs on pos shared by setVoxel and getVoxel; "" when all hold
assertPos(pos) ==
    IF ~(pos[1] >= -1) THEN "pos.x >= -1"
    ELSE IF ~(pos[2] >= -1) THEN "pos.y >= -1"
    ELSE IF ~(pos[3] >= -1) THEN "pos.z >= -1"
    ELSE IF ~(pos[1] < voxelLengthWithNormalCorrection - 1)
        THEN "pos.x < voxelLengthWithNormalCorrection-1"
    ELSE IF ~(pos[2] < voxelLengthWithNormalCorrection - 1)
        THEN "pos.y < voxelLengthWithNormalCorrection-1"
    ELSE IF ~(pos[3] < voxelLengthWithNormalCorrection - 1)
        THEN "pos.z < voxelLengthWithNormalCorrection-1"
    ELSE ""

\* (mutant) setVoxel's index with the stride of y one short
setVoxel_index_narrow(pos) ==
    (pos[1] + 1) * voxelLengthWithNormalCorrection * voxelLengthWithNormalCorrection
    + (pos[2] + 1) * (voxelLengthWithNormalCorrection - 1) + pos[3] + 1

\* the position's index in m_voxels, as setVoxel computes it
setVoxel_index(pos) ==
    (pos[1] + 1) * voxelLengthWithNormalCorrection * voxelLengthWithNormalCorrection
    + (pos[2] + 1) * voxelLengthWithNormalCorrection + pos[3] + 1

\* (mutant) getVoxel with the strides of x and y exchanged
getVoxel_index_swapped(pos) ==
    (pos[2] + 1) * voxelLengthWithNormalCorrection * voxelLengthWithNormalCorrection
    + (pos[1] + 1) * voxelLengthWithNormalCorrection + pos[3] + 1

\* the position's index in m_voxels, as getVoxel computes it
getVoxel_index(pos) ==
    (pos[1] + 1) * voxelLengthWithNormalCorrection * voxelLengthWithNormalCorrection
    + (pos[2] + 1) * voxelLengthWithNormalCorrection + pos[3] + 1

\* (mutant) the surface test with "pos > 0" for "pos >= 0"
countsInSurface_above(pos, toSet) ==
    /\ getInterpolation(toSet) >= 0
    /\ pos[1] > 0 /\ pos[2] > 0 /\ pos[3] > 0
    /\ vector3_lt(pos, vector3int32(voxelLengthSurface))

\* the condition under which setVoxel counts the sample
countsInSurface(pos, toSet) ==
    /\ getInterpolation(toSet) >= 0
    /\ vector3_ge(pos, vector3int32(0))
    /\ vector3_lt(pos, vector3int32(voxelLengthSurface))

\* (mutant) setVoxel reading "oldValue" after the sample is stored
setVoxel_readsStored(a, pos, toSet) ==
    IF BASSERT(assertPos(pos)) # "" THEN Failed(a, assertPos(pos))
    ELSE IF countsInSurface(pos, toSet) /\ a.m_numVoxelLargerZero = int32_max
    THEN Undefined(a)
    ELSE
      LET counted == IF countsInSurface(pos, toSet)
                     THEN [a EXCEPT !.m_numVoxelLargerZero = @ + 1]
                     ELSE a
          index == setVoxel_index(pos)
          stored == [counted EXCEPT !.m_voxels[index] = toSet]
          oldValue == stored.m_voxels[index]
      IN IF index \notin DOMAIN counted.m_voxels THEN Undefined(counted)
         ELSE Done(stored, oldValue # toSet)

\* setVoxel: a build that checks BASSERT stops at the first condition on pos
\* that does not hold; otherwise the sample is counted and stored. The
\* increment of a counter that holds int32_max (a signed overflow) and an
\* index outside the array make the behaviour undefined
setVoxel(a, pos, toSet) ==
    IF BASSERT(assertPos(pos)) # "" THEN Failed(a, assertPos(pos))
    ELSE IF countsInSurface(pos, toSet) /\ a.m_numVoxelLargerZero = int32_max
    THEN Undefined(a)
    ELSE
      LET counted == IF countsInSurface(pos, toSet)
                     THEN [a EXCEPT !.m_numVoxelLargerZero = @ + 1]
                     ELSE a
          index == setVoxel_index(pos)
          oldValue == counted.m_voxels[index]
          stored == [counted EXCEPT !.m_voxels[index] = toSet]
      IN IF index \notin DOMAIN counted.m_voxels THEN Undefined(counted)
         ELSE Done(stored, oldValue # toSet)

\* getVoxel: the same assertions, then the sample at the index; an index
\* outside the array makes the behaviour undefined
getVoxel(a, pos) ==
    IF BASSERT(assertPos(pos)) # "" THEN NoSample(Failed(a, assertPos(pos)))
    ELSE
      LET index == getVoxel_index(pos)
      IN IF index \notin DOMAIN a.m_voxels THEN Undefined(a)
         ELSE Done(a, a.m_voxels[index])

isEmpty(a) == a.m_numVoxelLargerZero = 0
\* (mutant) isFull with ">=" for "=="
isFull_atLeast(a) == a.m_numVoxelLargerZero >= voxelCountSurface

isFull(a) == a.m_numVoxelLargerZero = voxelCountSurface
getCalculateLod(a) == a.m_calculateLod
getNumVoxelLargerZero(a) == a.m_numVoxelLargerZero
getNumVoxelLargerZeroLod(a) == a.m_numVoxelLargerZeroLod
getVoxelArray(a) == a.m_voxels
getVoxelArrayLod(a) == a.m_voxelsLod

(***************************************************************************)
(* The LOD planes.                                                         *)
(***************************************************************************)
\* (mutant) setCalculateLod leaving the array in place when LOD is disabled
setCalculateLod_keepsArray(a, lod) ==
    IF a.m_calculateLod = lod THEN Done(a, FALSE)
    ELSE
      LET flagged == [a EXCEPT !.m_calculateLod = lod]
      IN IF flagged.m_calculateLod
         THEN IF BASSERT(IF flagged.m_voxelsLod = nullptr
                         THEN "" ELSE "m_voxelsLod == nullptr") # ""
              THEN Failed(flagged, "m_voxelsLod == nullptr")
              ELSE Done([flagged EXCEPT !.m_voxelsLod = scopedPointer(t_voxelArray(6 * voxelCountLod))],
                        FALSE)
         ELSE Done(flagged, FALSE)

\* (mutant) setCalculateLod acting on an unchanged flag too: the array is
\* replaced
setCalculateLod_always(a, lod) ==
    LET flagged == [a EXCEPT !.m_calculateLod = lod]
    IN IF flagged.m_calculateLod
       THEN Done([flagged EXCEPT !.m_voxelsLod = scopedPointer(t_voxelArray(6 * voxelCountLod))],
                 FALSE)
       ELSE Done([flagged EXCEPT !.m_voxelsLod = nullptr], FALSE)

\* (mutant) setCalculateLod allocating samples of interpolation 0
setCalculateLod_zeroed(a, lod) ==
    IF a.m_calculateLod = lod THEN Done(a, FALSE)
    ELSE
      LET flagged == [a EXCEPT !.m_calculateLod = lod]
      IN IF flagged.m_calculateLod
         THEN IF BASSERT(IF flagged.m_voxelsLod = nullptr
                         THEN "" ELSE "m_voxelsLod == nullptr") # ""
              THEN Failed(flagged, "m_voxelsLod == nullptr")
              ELSE Done([flagged EXCEPT
                            !.m_voxelsLod =
                                scopedPointer([i \in 0 .. (6 * voxelCountLod - 1) |-> 0])],
                        FALSE)
         ELSE Done([flagged EXCEPT !.m_voxelsLod = nullptr], FALSE)

setCalculateLod(a, lod) ==
    IF a.m_calculateLod = lod THEN Done(a, FALSE)
    ELSE
      LET flagged == [a EXCEPT !.m_calculateLod = lod]
      IN IF flagged.m_calculateLod
         THEN IF BASSERT(IF flagged.m_voxelsLod = nullptr
                         THEN "" ELSE "m_voxelsLod == nullptr") # ""
              THEN Failed(flagged, "m_voxelsLod == nullptr")
              ELSE Done([flagged EXCEPT !.m_voxelsLod = scopedPointer(t_voxelArray(6 * voxelCountLod))],
                        FALSE)
         ELSE Done([flagged EXCEPT !.m_voxelsLod = nullptr], FALSE)

setNumVoxelLargerZero(a, toSet) ==
    Done([a EXCEPT !.m_numVoxelLargerZero = toSet], FALSE)

setNumVoxelLargerZeroLod(a, toSet) ==
    Done([a EXCEPT !.m_numVoxelLargerZeroLod = toSet], FALSE)

\* vector2int32(): the default-constructed 2-D vector
vector2int32_default == <<0, 0>>

\* the BASSERTs calculateCoordsLod makes before its switch; "" when all hold
assertCoordsLod(pos, lod) ==
    IF ~(lod >= 0) THEN "lod >= 0"
    ELSE IF ~(lod < 6) THEN "lod < 6"
    ELSE IF ~(pos[1] >= 0) THEN "pos.x >= 0"
    ELSE IF ~(pos[2] >= 0) THEN "pos.y >= 0"
    ELSE IF ~(pos[3] >= 0) THEN "pos.z >= 0"
    ELSE IF ~(pos[1] < voxelLengthLod) THEN "pos.x < voxelLengthLod"
    ELSE IF ~(pos[2] < voxelLengthLod) THEN "pos.y < voxelLengthLod"
    ELSE IF ~(pos[3] < voxelLengthLod) THEN "pos.z < voxelLengthLod"
    ELSE IF ~(pos[1] = 0 \/ pos[2] = 0 \/ pos[3] = 0)
        THEN "pos.x == 0 || pos.y == 0 || pos.z == 0"
    ELSE ""

\* (mutant) calculateCoordsLod returning (x, y) for the faces 2 and 3
calculateCoordsLod_xy(pos, lod) ==
    LET returns(index) == [index |-> index, assert |-> ""]
        fails(what) == [index |-> vector2int32_default, assert |-> what]
    IN IF BASSERT(assertCoordsLod(pos, lod)) # ""
       THEN fails(assertCoordsLod(pos, lod))
       ELSE CASE lod \in {0, 1} ->
                   IF BASSERT(IF pos[1] = 0 THEN "" ELSE "pos.x == 0") # ""
                   THEN fails("pos.x == 0")
                   ELSE returns(<<pos[2], pos[3]>>)
              [] lod \in {2, 3} ->
                   IF BASSERT(IF pos[2] = 0 THEN "" ELSE "pos.y == 0") # ""
                   THEN fails("pos.y == 0")
                   ELSE returns(<<pos[1], pos[2]>>)
              [] lod \in {4, 5} ->
                   IF BASSERT(IF pos[3] = 0 THEN "" ELSE "pos.z == 0") # ""
                   THEN fails("pos.z == 0")
                   ELSE returns(<<pos[1], pos[2]>>)
              [] OTHER ->
                   IF BASSERT("false") # "" THEN fails("false")
                   ELSE returns(vector2int32_default)

\* calculateCoordsLod: the 2-D coordinate on the face's plane, or the BASSERT
\* that fails in a build that checks it; the switch's default branch fails
\* BASSERT(false) and, unchecked, returns vector2int32()
calculateCoordsLod(pos, lod) ==
    LET returns(index) == [index |-> index, assert |-> ""]
        fails(what) == [index |-> vector2int32_default, assert |-> what]
    IN IF BASSERT(assertCoordsLod(pos, lod)) # ""
       THEN fails(assertCoordsLod(pos, lod))
       ELSE CASE lod \in {0, 1} ->
                   IF BASSERT(IF pos[1] = 0 THEN "" ELSE "pos.x == 0") # ""
                   THEN fails("pos.x == 0")
                   ELSE returns(<<pos[2], pos[3]>>)
              [] lod \in {2, 3} ->
                   IF BASSERT(IF pos[2] = 0 THEN "" ELSE "pos.y == 0") # ""
                   THEN fails("pos.y == 0")
                   ELSE returns(<<pos[1], pos[3]>>)
              [] lod \in {4, 5} ->
                   IF BASSERT(IF pos[3] = 0 THEN "" ELSE "pos.z == 0") # ""
                   THEN fails("pos.z == 0")
                   ELSE returns(<<pos[1], pos[2]>>)
              [] OTHER ->
                   IF BASSERT("false") # "" THEN fails("false")
                   ELSE returns(vector2int32_default)

\* (mutant) setVoxelLod's index with one plane for the two faces of an axis
setVoxelLod_index_perAxis(index, lod) ==
    (lod \div 2) * voxelCountLod + index[1] * voxelLengthLod + index[2]

\* the 2-D position's index in *m_voxelsLod, as setVoxelLod computes it; the
\* code converts it to uint32, which turns a negative value into one of at
\* least 2^31: like the negative value, an index outside the array
setVoxelLod_index(index, lod) ==
    lod * voxelCountLod + index[1] * voxelLengthLod + index[2]

\* (mutant) getVoxelLod with the roles of index.x and index.y exchanged
getVoxelLod_index_swapped(index, lod) ==
    lod * voxelCountLod + index[2] * voxelLengthLod + index[1]

\* the 2-D position's index in *m_voxelsLod, as getVoxelLod computes it
getVoxelLod_index(index, lod) ==
    lod * voxelCountLod + index[1] * voxelLengthLod + index[2]

\* the BASSERTs of the protected setVoxelLod(vector2int32, ...); "" when all hold
assertIndexLod(a, index) ==
    IF ~vector2_ge(index, 0) THEN "index >= 0"
    ELSE IF ~vector2_lt(index, voxelCountLod) THEN "index < voxelCountLod"
    ELSE IF ~a.m_calculateLod THEN "m_calculateLod"
    ELSE IF ~(a.m_voxelsLod # nullptr) THEN "m_voxelsLod.get() != nullptr"
    ELSE ""

\* the BASSERTs of the protected getVoxelLod(vector2int32, ...); "" when all hold
assertIndexLodGet(a, index) ==
    IF ~vector2_ge(index, 0) THEN "index >= 0"
    ELSE IF ~vector2_lt(index, voxelCountLod) THEN "index < voxelCountLod"
    ELSE IF ~a.m_calculateLod THEN "m_calculateLod"
    ELSE ""

\* (mutant) setVoxelLod counting the sample before its assertions
setVoxelLod2_countsFirst(a, index, toSet, lod) ==
    IF getInterpolation(toSet) >= 0 /\ a.m_numVoxelLargerZeroLod = int32_max
    THEN Undefined(a)
    ELSE
      LET counted == IF getInterpolation(toSet) >= 0
                     THEN [a EXCEPT !.m_numVoxelLargerZeroLod = @ + 1]
                     ELSE a
      IN IF BASSERT(assertIndexLod(a, index)) # ""
         THEN Failed(counted, assertIndexLod(a, index))
         ELSE
           LET index_ == setVoxelLod_index(index, lod)
               oldValue == pointee(counted.m_voxelsLod)[index_]
               stored == [counted EXCEPT !.m_voxelsLod[1][index_] = toSet]
           IN IF counted.m_voxelsLod = nullptr
                 \/ index_ \notin DOMAIN pointee(counted.m_voxelsLod)
              THEN Undefined(counted)
              ELSE Done(stored, oldValue # toSet)

\* setVoxelLod(const vector2int32&, const t_voxel&, const int32&): after the
\* assertions the sample is counted and stored; the increment of a counter
\* that holds int32_max, the null pointer and an index outside the array the
\* pointer points to make the behaviour undefined
setVoxelLod2(a, index, toSet, lod) ==
    IF BASSERT(assertIndexLod(a, index)) # "" THEN Failed(a, assertIndexLod(a, index))
    ELSE IF getInterpolation(toSet) >= 0 /\ a.m_numVoxelLargerZeroLod = int32_max
    THEN Undefined(a)
    ELSE
      LET counted == IF getInterpolation(toSet) >= 0
                     THEN [a EXCEPT !.m_numVoxelLargerZeroLod = @ + 1]
                     ELSE a
          index_ == setVoxelLod_index(index, lod)
          oldValue == pointee(counted.m_voxelsLod)[index_]
          stored == [counted EXCEPT !.m_voxelsLod[1][index_] = toSet]
      IN IF counted.m_voxelsLod = nullptr
            \/ index_ \notin DOMAIN pointee(counted.m_voxelsLod)
         THEN Undefined(counted)
         ELSE Done(stored, oldValue # toSet)

\* setVoxelLod(const vector3int32&, const t_voxel&, const int32&)
setVoxelLod(a, pos, toSet, lod) ==
    LET coords == calculateCoordsLod(pos, lod)
    IN IF coords.assert # "" THEN Failed(a, coords.assert)
       ELSE setVoxelLod2(a, coords.index, toSet, lod)

\* getVoxelLod(const vector2int32&, const int32&): the null pointer and an
\* index outside the array it points to make the behaviour undefined
getVoxelLod2(a, index, lod) ==
    IF BASSERT(assertIndexLodGet(a, index)) # ""
    THEN NoSample(Failed(a, assertIndexLodGet(a, index)))
    ELSE
      LET index_ == getVoxelLod_index(index, lod)
      IN IF a.m_voxelsLod = nullptr \/ index_ \notin DOMAIN pointee(a.m_voxelsLod)
         THEN Undefined(a)
         ELSE Done(a, pointee(a.m_voxelsLod)[index_])

\* getVoxelLod(const vector3int32&, const int32&)
getVoxelLod(a, pos, lod) ==
    LET coords == calculateCoordsLod(pos, lod)
    IN IF coords.assert # "" THEN NoSample(Failed(a, coords.assert))
       ELSE getVoxelLod2(a, coords.index, lod)

(***************************************************************************)
(* Serialization: the archive is the sequence of name-value pairs in the   *)
(* order serialize() passes them to the archive.                           *)
(***************************************************************************)
nameValuePair(name, value) == [name |-> name, value |-> value]

\* save(): the part of a saving archive written by saveLoad(readWrite, *this)
save(a) == <<nameValuePair("calculateLod", a.m_calculateLod)>>

\* (mutant) load() assigning the flag without setCalculateLod
load_assignsFlag(a, readWrite) ==
    Done([a EXCEPT !.m_calculateLod = Head(readWrite).value], FALSE)

\* load(): reads the flag and applies it with setCalculateLod
load(a, readWrite) == setCalculateLod(a, Head(readWrite).value)

\* serialize() with a saving archive: the pairs written, in order, and the
\* BASSERT that stops it; with the flag set and no array the assertion fails
\* after four pairs, and unchecked the null pointer is dereferenced
serialize_save(a) ==
    LET written == <<nameValuePair("numVoxelLargerZero", a.m_numVoxelLargerZero),
                     nameValuePair("numVoxelLargerZeroLod", a.m_numVoxelLargerZeroLod)>>
                   \o save(a)
                   \o <<nameValuePair("voxels", a.m_voxels)>>
    IN IF ~a.m_calculateLod
       THEN [pairs |-> written, assert |-> "", undefined |-> FALSE]
       ELSE IF BASSERT(IF a.m_voxelsLod = nullptr
                       THEN "!m_voxelsLod.isNull()" ELSE "") # ""
       THEN [pairs |-> written, assert |-> "!m_voxelsLod.isNull()",
             undefined |-> FALSE]
       ELSE IF a.m_voxelsLod = nullptr
       THEN [pairs |-> written, assert |-> "", undefined |-> TRUE]
       ELSE [pairs |-> written \o <<nameValuePair("voxelsLod", pointee(a.m_voxelsLod))>>,
             assert |-> "", undefined |-> FALSE]

\* (mutant) serialize() deciding on the LOD payload by the flag the receiver
\* had when the restore began
serialize_load_steps_receiverFlag(a, readWrite) ==
    LET step(name, r) == [name |-> name, acc |-> r.acc, assert |-> r.assert,
                          undefined |-> r.undefined]
        a1 == [a EXCEPT !.m_numVoxelLargerZero = readWrite[1].value]
        a2 == [a1 EXCEPT !.m_numVoxelLargerZeroLod = readWrite[2].value]
        r3 == load(a2, SubSeq(readWrite, 3, Len(readWrite)))
        a3 == r3.acc
        a4 == [a3 EXCEPT !.m_voxels = readWrite[4].value]
        head == <<step("numVoxelLargerZero", Done(a1, FALSE)),
                  step("numVoxelLargerZeroLod", Done(a2, FALSE)),
                  step("calculateLod", r3)>>
    IN IF r3.assert # "" THEN head
       ELSE head \o <<step("voxels", Done(a4, FALSE))>>
            \o (IF a.m_calculateLod
                THEN IF BASSERT(IF a4.m_voxelsLod = nullptr
                                THEN "!m_voxelsLod.isNull()" ELSE "") # ""
                     THEN <<step("voxelsLod", Failed(a4, "!m_voxelsLod.isNull()"))>>
                     ELSE IF a4.m_voxelsLod = nullptr
                     THEN <<step("voxelsLod", Undefined(a4))>>
                     ELSE <<step("voxelsLod",
                                 Done([a4 EXCEPT !.m_voxelsLod[1] = readWrite[5].value],
                                      FALSE))>>
                ELSE <<>>)

\* serialize() with a loading archive, read by read: the pairs are read in
\* the order they were written, each into the member it names; a step is the
\* pair's name, the object after the read, the BASSERT that failed in it and
\* whether its behaviour is undefined
serialize_load_steps(a, readWrite) ==
    LET step(name, r) == [name |-> name, acc |-> r.acc, assert |-> r.assert,
                          undefined |-> r.undefined]
        a1 == [a EXCEPT !.m_numVoxelLargerZero = readWrite[1].value]
        a2 == [a1 EXCEPT !.m_numVoxelLargerZeroLod = readWrite[2].value]
        r3 == load(a2, SubSeq(readWrite, 3, Len(readWrite)))
        a3 == r3.acc
        a4 == [a3 EXCEPT !.m_voxels = readWrite[4].value]
        head == <<step("numVoxelLargerZero", Done(a1, FALSE)),
                  step("numVoxelLargerZeroLod", Done(a2, FALSE)),
                  step("calculateLod", r3)>>
    IN IF r3.assert # "" THEN head
       ELSE head \o <<step("voxels", Done(a4, FALSE))>>
            \o (IF a4.m_calculateLod
                THEN IF BASSERT(IF a4.m_voxelsLod = nullptr
                                THEN "!m_voxelsLod.isNull()" ELSE "") # ""
                     THEN <<step("voxelsLod", Failed(a4, "!m_voxelsLod.isNull()"))>>
                     ELSE IF a4.m_voxelsLod = nullptr
                     THEN <<step("voxelsLod", Undefined(a4))>>
                     ELSE <<step("voxelsLod",
                                 Done([a4 EXCEPT !.m_voxelsLod[1] = readWrite[5].value],
                                      FALSE))>>
                ELSE <<>>)

\* serialize() with a loading archive: the object after the last read
serialize_load(a, readWrite) ==
    LET steps == serialize_load_steps(a, readWrite)
        final == steps[Len(steps)]
    IN [acc |-> final.acc, ret |-> FALSE, assert |-> final.assert,
        undefined |-> final.undefined]

(***************************************************************************)
(* The instance under study and the calls made on it.                      *)
(***************************************************************************)
This == [m_voxels |-> m_voxels,
         m_voxelsLod |-> m_voxelsLod,
         m_calculateLod |-> m_calculateLod,
         m_numVoxelLargerZero |-> m_numVoxelLargerZero,
         m_numVoxelLargerZeroLod |-> m_numVoxelLargerZeroLod]

Becomes(a) ==
    /\ m_calculateLod' = a.m_calculateLod
    /\ m_numVoxelLargerZero' = a.m_numVoxelLargerZero
    /\ m_numVoxelLargerZeroLod' = a.m_numVoxelLargerZeroLod
    /\ m_voxelsLod' = a.m_voxelsLod
    /\ m_voxels' = a.m_voxels

\* a call counts a counter on within the explored range only; a call that
\* leaves a counter as it was is made whatever the counter holds
WithinBounds(a) ==
    /\ a.m_numVoxelLargerZero # m_numVoxelLargerZero
          => a.m_numVoxelLargerZero <= MaxCount
    /\ a.m_numVoxelLargerZeroLod # m_numVoxelLargerZeroLod
          => a.m_numVoxelLargerZeroLod <= MaxCount

\* the program's behaviour is defined until a call whose behaviour is not
Defined == ~last.undefined

Call(op, r) ==
    [op |-> op, ret |-> r.ret, assert |-> r.assert, undefined |-> r.undefined]

\* the object after a call with undefined behaviour: a write outside an array
\* can land on the array handles, the flag and the counters, which follow
\* each other in the object, and an overflowed counter holds whatever the
\* build computes, so every member may hold any value and none is known
UndefinedOutcome ==
    [m_voxels |-> unknown,
     m_voxelsLod |-> unknown,
     m_calculateLod |-> unknown,
     m_numVoxelLargerZero |-> unknown,
     m_numVoxelLargerZeroLod |-> unknown]

\* the call op has ended as r says: the instance becomes r's object and r's
\* value is returned, or, when the call's behaviour is undefined, nothing is
\* known of the instance and any of values is returned
Returns(op, r, values) ==
    IF r.undefined
    THEN \E ret \in values :
            /\ last' = [Call(op, r) EXCEPT !.ret = ret]
            /\ Becomes(UndefinedOutcome)
    ELSE /\ last' = Call(op, r)
         /\ Becomes(r.acc)

Created ==
    /\ m_voxels = create.m_voxels
    /\ m_voxelsLod = create.m_voxelsLod
    /\ m_calculateLod = create.m_calculateLod
    /\ m_numVoxelLargerZero = create.m_numVoxelLargerZero
    /\ m_numVoxelLargerZeroLod = create.m_numVoxelLargerZeroLod
    /\ last = [op |-> "create", ret |-> FALSE, assert |-> "", undefined |-> FALSE]

(***************************************************************************)
(* The inputs.                                                             *)
(***************************************************************************)
Coords == -1 .. (voxelLengthWithNormalCorrection - 2)
ValidPositions == Coords \X Coords \X Coords
\* positions with one component just outside the range
BadPositions ==
    {<<-2, 0, 0>>, <<0, -2, 0>>, <<0, 0, -2>>,
     <<voxelLengthWithNormalCorrection - 1, 0, 0>>,
     <<0, voxelLengthWithNormalCorrection - 1, 0>>,
     <<0, 0, voxelLengthWithNormalCorrection - 1>>}

SurfaceCoords == 0 .. (voxelLengthSurface - 1)
SurfacePositions == SurfaceCoords \X SurfaceCoords \X SurfaceCoords

LodCoords == 0 .. (voxelLengthLod - 1)
Lods == 0 .. 5
\* the calls that meet calculateCoordsLod's precondition: <<pos, lod>>
ValidLodCalls ==
    {c \in (LodCoords \X LodCoords \X LodCoords) \X Lods :
        \/ c[2] \in {0, 1} /\ c[1][1] = 0
        \/ c[2] \in {2, 3} /\ c[1][2] = 0
        \/ c[2] \in {4, 5} /\ c[1][3] = 0}
\* calls that break it: a face index out of range, a coordinate out of range,
\* a position on no zero-plane or on another face's
BadLodCalls ==
    {<<<<0, 0, 0>>, -1>>, <<<<0, 0, 0>>, 6>>,
     <<<<-1, 0, 0>>, 2>>, <<<<0, voxelLengthLod, 0>>, 0>>,
     <<<<1, 1, 1>>, 0>>,
     <<<<1, 0, 0>>, 0>>, <<<<0, 1, 0>>, 3>>, <<<<0, 0, 1>>, 4>>}

Counts == 0 .. MaxCount

\* a non-empty sample
someNonEmpty == MaxInterpolation

\* the inputs of the general specification: a surface position and a halo
\* position, and one LOD cell
GeneralPositions == {<<voxelLengthSurface - 1, 0, voxelLengthSurface - 1>>,
                     <<-1, voxelLengthSurface, 0>>}
GeneralLodCalls == {<<<<voxelLengthLod - 1, 0, 1>>, 3>>}

\* the instances a serialized form is restored into: a fresh one, one with
\* LOD enabled, one with LOD enabled and samples and counts of its own
Receivers ==
    LET fresh == create
        withLod == setCalculateLod(fresh, TRUE).acc
        written == setVoxel(setVoxelLod(withLod, <<0, 0, 0>>, someNonEmpty, 0).acc,
                            <<0, 0, 0>>, someNonEmpty).acc
    IN {fresh, withLod, written}

(***************************************************************************)
(* The actions: one per public operation.                                  *)
(***************************************************************************)
Inputs == UNCHANGED <<positions, lodCalls, BASSERT_checked>>

SetVoxel(pos, toSet) ==
    /\ Defined
    /\ LET r == setVoxel(This, pos, toSet)
       IN /\ r.undefined \/ WithinBounds(r.acc)
          /\ Returns("setVoxel", r, BOOLEAN)
    /\ Inputs

SetVoxelLod(pos, toSet, lod) ==
    /\ Defined
    /\ LET r == setVoxelLod(This, pos, toSet, lod)
       IN /\ r.undefined \/ WithinBounds(r.acc)
          /\ Returns("setVoxelLod", r, BOOLEAN)
    /\ Inputs

SetCalculateLod(lod) ==
    /\ Defined
    /\ Returns("setCalculateLod", setCalculateLod(This, lod), BOOLEAN)
    /\ Inputs

SetNumVoxelLargerZero(toSet) ==
    /\ Defined
    /\ Returns("setNumVoxelLargerZero", setNumVoxelLargerZero(This, toSet), BOOLEAN)
    /\ Inputs

SetNumVoxelLargerZeroLod(toSet) ==
    /\ Defined
    /\ Returns("setNumVoxelLargerZeroLod", setNumVoxelLargerZeroLod(This, toSet), BOOLEAN)
    /\ Inputs

\* the instance is serialized into a saving archive and, when that ends
\* without a failed assertion, the archive is restored into the receiver,
\* which is the instance studied from then on
SaveAndRestore(receiver) ==
    /\ Defined
    /\ LET saved == serialize_save(This)
           r == IF saved.assert # "" THEN Failed(This, saved.assert)
                ELSE IF saved.undefined THEN Undefined(This)
                ELSE serialize_load(receiver, saved.pairs)
       IN Returns("serialize", r, BOOLEAN)
    /\ Inputs

\* the caller stores a sample through the reference getVoxelArray() returns;
\* no counter is touched
WriteVoxelArray(index, toSet) ==
    /\ Defined
    /\ index \in DOMAIN getVoxelArray(This)
    /\ Returns("getVoxelArray",
               Done([This EXCEPT !.m_voxels[index] = toSet], FALSE), BOOLEAN)
    /\ Inputs

\* the caller resizes the vector getVoxelArray() returns: the samples below
\* the new length are kept, new ones are default-constructed
ResizeVoxelArray(length) ==
    /\ Defined
    /\ Returns("getVoxelArray",
               Done([This EXCEPT !.m_voxels =
                        [i \in 0 .. (length - 1) |->
                            IF i \in DOMAIN m_voxels THEN m_voxels[i]
                            ELSE t_voxel_default]],
                    FALSE), BOOLEAN)
    /\ Inputs

\* the caller stores a sample through the pointer getVoxelArrayLod() returns
WriteVoxelArrayLod(index, toSet) ==
    /\ Defined
    /\ getVoxelArrayLod(This) # nullptr
    /\ index \in DOMAIN pointee(getVoxelArrayLod(This))
    /\ Returns("getVoxelArrayLod",
               Done([This EXCEPT !.m_voxelsLod[1][index] = toSet], FALSE), BOOLEAN)
    /\ Inputs

\* the caller resizes the vector the pointer getVoxelArrayLod() returns; the
\* pointer stays the pointer to that vector, whatever the length
ResizeVoxelArrayLod(length) ==
    /\ Defined
    /\ getVoxelArrayLod(This) # nullptr
    /\ Returns("getVoxelArrayLod",
               Done([This EXCEPT !.m_voxelsLod[1] =
                        [i \in 0 .. (length - 1) |->
                            IF i \in DOMAIN pointee(m_voxelsLod)
                            THEN pointee(m_voxelsLod)[i]
                            ELSE t_voxel_default]],
                    FALSE), BOOLEAN)
    /\ Inputs

\* what a read outside an array returns: the byte that lies there, which
\* need not be a sample that was ever stored, so nothing is known of it
t_voxel_undefined == {unknown}

\* getVoxel(pos) is called and its sample returned
GetVoxel(pos) ==
    /\ Defined
    /\ Returns("getVoxel", getVoxel(This, pos), t_voxel_undefined)
    /\ Inputs

\* getVoxelLod(pos, lod) is called and its sample returned
GetVoxelLod(pos, lod) ==
    /\ Defined
    /\ Returns("getVoxelLod", getVoxelLod(This, pos, lod), t_voxel_undefined)
    /\ Inputs

\* the general specification: the build that checks BASSERT, every
\* operation, one call of each kind that breaks a precondition
GeneralBadPositions == {<<0, voxelLengthWithNormalCorrection - 1, 0>>}
GeneralBadLodCalls == {<<<<1, 0, 0>>, 0>>}

Init ==
    /\ Created
    /\ positions = GeneralPositions
    /\ lodCalls = GeneralLodCalls
    /\ BASSERT_checked = TRUE

Next ==
    \/ \E pos \in positions, toSet \in t_voxel : SetVoxel(pos, toSet)
    \/ \E pos \in GeneralBadPositions : SetVoxel(pos, someNonEmpty)
    \/ \E c \in lodCalls, toSet \in t_voxel : SetVoxelLod(c[1], toSet, c[2])
    \/ \E c \in GeneralBadLodCalls : SetVoxelLod(c[1], someNonEmpty, c[2])
    \/ \E lod \in BOOLEAN : SetCalculateLod(lod)
    \/ \E toSet \in Counts : SetNumVoxelLargerZero(toSet)
    \/ \E toSet \in Counts : SetNumVoxelLargerZeroLod(toSet)
    \/ \E receiver \in Receivers : SaveAndRestore(receiver)
    \/ \E pos \in positions, toSet \in t_voxel :
          WriteVoxelArray(getVoxel_index(pos), toSet)
    \/ \E length \in {ResizedLength, voxelCount} : ResizeVoxelArray(length)
    \/ \E c \in lodCalls, toSet \in t_voxel :
          WriteVoxelArrayLod(getVoxelLod_index(calculateCoordsLod(c[1], c[2]).index,
                                               c[2]),
                             toSet)
    \/ \E length \in {0, voxelCountLodAll} : ResizeVoxelArrayLod(length)
    \/ \E pos \in positions \cup GeneralBadPositions : GetVoxel(pos)
    \/ \E c \in lodCalls \cup GeneralBadLodCalls : GetVoxelLod(c[1], c[2])

Spec == Init /\ [][Next]_vars

(***************************************************************************)
(* The main array alone: a run's setVoxel calls use a pair of positions,   *)
(* any valid position with an anchor (in the surface region or in the      *)
(* halo), and every sample.                                                *)
(***************************************************************************)
Anchors == {<<0, 0, 0>>,
            <<voxelLengthSurface - 1, voxelLengthSurface - 1, voxelLengthSurface - 1>>,
            <<-1, voxelLengthWithNormalCorrection - 2, 0>>}

InitVoxel ==
    /\ Created
    /\ BASSERT_checked = TRUE
    /\ positions \in {{p, q} : p \in ValidPositions, q \in Anchors}
    /\ lodCalls = {}

NextVoxel ==
    \E pos \in positions, toSet \in t_voxel : SetVoxel(pos, toSet)

SpecVoxel == InitVoxel /\ [][NextVoxel]_vars

\* C1: getVoxel(pos) right after setVoxel(pos, v) returns v, for every valid
\* position and every sample.
C1_SetGetRoundTrip ==
    [][\A pos \in positions, v \in t_voxel :
          SetVoxel(pos, v) => getVoxel(This', pos).ret = v]_vars

\* a halo cell and a surface cell hold samples that setVoxel stored
C1_Witness ==
    /\ last.op = "setVoxel"
    /\ last.assert = ""
    /\ \E pos \in positions \ SurfacePositions :
          getVoxel(This, pos).ret # t_voxel_default
    /\ \E pos \in positions \cap SurfacePositions :
          getVoxel(This, pos).ret # t_voxel_default

\* C2: setVoxel(pos, v) returns false exactly when v is the sample stored at
\* pos before the call, and true otherwise.
C2_ReturnsChanged ==
    [][\A pos \in positions, v \in t_voxel :
          SetVoxel(pos, v) => (last'.ret = FALSE <=> v = getVoxel(This, pos).ret)]_vars

\* setVoxel returned false on a cell holding a sample written earlier
C2_Witness ==
    /\ last.op = "setVoxel"
    /\ last.assert = ""
    /\ last.ret = FALSE
    /\ m_numVoxelLargerZero = 2
    /\ Cardinality({pos \in positions : getVoxel(This, pos).ret # t_voxel_default}) = 1

\* C8 (as claimed): after setVoxel calls on a fresh cache, whenever every
\* sample stored in the surface region is empty, isEmpty() is true.
C8_IsEmptyReportsContent ==
    (\A pos \in SurfacePositions : getInterpolation(getVoxel(This, pos).ret) < 0)
        => isEmpty(This)

(***************************************************************************)
(* Filling the surface region: every call writes a non-empty sample to a   *)
(* surface position that no call has written yet (its cell still holds the *)
(* default sample, which is empty), so each position is written at most    *)
(* once and in any order, and no other position is written.                *)
(***************************************************************************)
InitFill ==
    /\ Created
    /\ BASSERT_checked = TRUE
    /\ positions = SurfacePositions
    /\ lodCalls = {}

FillVoxel(pos, toSet) ==
    /\ Defined
    /\ getVoxel(This, pos).ret = t_voxel_default
    /\ getInterpolation(toSet) >= 0
    /\ Returns("setVoxel", setVoxel(This, pos, toSet), BOOLEAN)
    /\ Inputs

NextFill ==
    \E pos \in positions, toSet \in t_voxel : FillVoxel(pos, toSet)

SpecFill == InitFill /\ [][NextFill]_vars

\* C3: once each of the voxelCountSurface surface positions has been written
\* exactly once with a non-empty sample, and nothing else, isFull() is true
\* and isEmpty() is false.
C3_FilledIsFull ==
    (\A pos \in SurfacePositions : getVoxel(This, pos).ret # t_voxel_default)
        => (isFull(This) /\ ~isEmpty(This))

\* the last surface position has just been written
C3_Witness ==
    /\ last.op = "setVoxel"
    /\ last.assert = ""
    /\ \A pos \in SurfacePositions : getInterpolation(getVoxel(This, pos).ret) >= 0
    /\ \A pos \in ValidPositions \ SurfacePositions :
          getVoxel(This, pos).ret = t_voxel_default
    /\ getNumVoxelLargerZero(This) = voxelCountSurface

(***************************************************************************)
(* The LOD planes alone: a run's setVoxelLod calls use a pair of cells,    *)
(* any cell of any face with an anchor, and every sample.                  *)
(***************************************************************************)
LodAnchors == {<<<<0, 0, 0>>, 0>>, <<<<voxelLengthLod - 1, 1, 0>>, 5>>}

InitLod ==
    /\ Created
    /\ BASSERT_checked = TRUE
    /\ positions = {}
    /\ lodCalls \in {{c, d} : c \in ValidLodCalls, d \in LodAnchors}

NextLod ==
    \/ \E lod \in BOOLEAN : SetCalculateLod(lod)
    \/ \E c \in lodCalls, toSet \in t_voxel : SetVoxelLod(c[1], toSet, c[2])

SpecLod == InitLod /\ [][NextLod]_vars

\* the cells of an array that hold a non-empty sample
NonEmptyCells(array) ==
    Cardinality({i \in DOMAIN array : getInterpolation(array[i]) >= 0})

\* C9: with LOD enabled, getVoxelLod(pos, faceIndex) right after
\* setVoxelLod(pos, v, faceIndex) returns v, for every face, every position on
\* the face's zero-plane and every sample.
C9_SetGetLodRoundTrip ==
    [][\A c \in lodCalls, v \in t_voxel :
          (m_calculateLod /\ SetVoxelLod(c[1], v, c[2]))
              => getVoxelLod(This', c[1], c[2]).ret = v]_vars

\* cells of two faces hold samples that setVoxelLod stored
C9_Witness ==
    /\ last.op = "setVoxelLod"
    /\ last.assert = ""
    /\ m_calculateLod
    /\ \A c \in lodCalls : getVoxelLod(This, c[1], c[2]).ret # t_voxel_default
    /\ \E c \in lodCalls : c[2] \in {2, 3} /\ c[1][1] # c[1][3]

\* C10: calculateCoordsLod maps (x, y, z) to (y, z) for faces 0 and 1, to
\* (x, z) for faces 2 and 3 and to (x, y) for faces 4 and 5, and for a face in
\* 0..5 and a position on its zero-plane no assertion fails (the default
\* branch is not taken).
C10_CoordsLodMapping ==
    \A c \in lodCalls :
        LET pos == c[1]
            coords == calculateCoordsLod(pos, c[2])
        IN /\ coords.assert = ""
           /\ c[2] \in {0, 1} => coords.index = <<pos[2], pos[3]>>
           /\ c[2] \in {2, 3} => coords.index = <<pos[1], pos[3]>>
           /\ c[2] \in {4, 5} => coords.index = <<pos[1], pos[2]>>

\* setVoxelLod stored a sample on face 2 or 3 at the cell (x, z) names
C10_Witness ==
    /\ last.op = "setVoxelLod"
    /\ last.assert = ""
    /\ m_calculateLod
    /\ \E c \in lodCalls :
          /\ c[2] \in {2, 3}
          /\ c[1][1] # c[1][3]
          /\ pointee(m_voxelsLod)[c[2] * voxelCountLod + c[1][1] * voxelLengthLod
                                    + c[1][3]]
                # t_voxel_default

(***************************************************************************)
(* Toggling the LOD facility: every setVoxelLod call writes a sample other *)
(* than the default one to a cell that still holds the default one, so a   *)
(* cell is written at most once while LOD stays enabled; the counters are  *)
(* not set directly.                                                       *)
(***************************************************************************)
SetVoxelLodOnce(pos, toSet, lod) ==
    /\ m_calculateLod
    /\ getVoxelLod(This, pos, lod).ret = t_voxel_default
    /\ toSet # t_voxel_default
    /\ SetVoxelLod(pos, toSet, lod)

NextLodOnce ==
    \/ \E lod \in BOOLEAN : SetCalculateLod(lod)
    \/ \E c \in lodCalls, toSet \in t_voxel : SetVoxelLodOnce(c[1], toSet, c[2])

SpecLodOnce == InitLod /\ [][NextLodOnce]_vars

\* C5 (as claimed): nonEmptyInLod is the number of non-empty samples in the
\* LOD array allocated now, and 0 when the array is fresh or absent.
C5_LodCounterInSync ==
    getNumVoxelLargerZeroLod(This) =
        (IF getVoxelArrayLod(This) = nullptr THEN 0
         ELSE NonEmptyCells(pointee(getVoxelArrayLod(This))))

(***************************************************************************)
(* Claims about every public operation together.                           *)
(***************************************************************************)
\* C4: in every state reached with defined behaviour the LOD array is
\* present exactly when the flag is true, and setCalculateLod's assertion of
\* an absent array never fails.
C4_LodArrayIffFlag ==
    /\ Defined => ((getVoxelArrayLod(This) # nullptr) <=> getCalculateLod(This))
    /\ last.assert # "m_voxelsLod == nullptr"

\* LOD was enabled after samples had been counted in an earlier array
C4_Witness ==
    /\ last.op = "setCalculateLod"
    /\ last.assert = ""
    /\ getCalculateLod(This)
    /\ getVoxelArrayLod(This) = scopedPointer(t_voxelArray(voxelCountLodAll))
    /\ getNumVoxelLargerZeroLod(This) = MaxCount

\* C6: saving an instance and restoring the archive into a fresh instance
\* gives the same flag, the same counters (so the same isEmpty and isFull),
\* the same sample at every position and, with LOD enabled, the same sample
\* in every cell of the six planes.
C6_SerializeRoundTrip ==
    [][(last'.op = "serialize" /\ SaveAndRestore(create)) =>
          LET saved == This
              restored == This'
          IN /\ last'.assert = ""
             /\ getCalculateLod(restored) = getCalculateLod(saved)
             /\ getNumVoxelLargerZero(restored) = getNumVoxelLargerZero(saved)
             /\ getNumVoxelLargerZeroLod(restored) = getNumVoxelLargerZeroLod(saved)
             /\ isEmpty(restored) = isEmpty(saved)
             /\ isFull(restored) = isFull(saved)
             \* the arrays are the same, cell by cell, and so is what the
             \* getters return at the run's positions
             /\ getVoxelArray(restored) = getVoxelArray(saved)
             /\ \A pos \in positions :
                   getVoxel(restored, pos).ret = getVoxel(saved, pos).ret
             /\ (getVoxelArrayLod(restored) = nullptr)
                   = (getVoxelArrayLod(saved) = nullptr)
             /\ getCalculateLod(saved) =>
                   /\ getVoxelArrayLod(restored) = getVoxelArrayLod(saved)
                   /\ \A c \in lodCalls :
                         getVoxelLod(restored, c[1], c[2]).ret
                             = getVoxelLod(saved, c[1], c[2]).ret]_vars

\* an instance with LOD enabled, samples in both arrays and both counters
\* set has been restored
C6_Witness ==
    /\ last.op = "serialize"
    /\ last.assert = ""
    /\ getCalculateLod(This)
    /\ \E c \in lodCalls :
          LET read == getVoxelLod(This, c[1], c[2])
          IN ~read.undefined /\ read.ret # t_voxel_default
    /\ \E pos \in positions :
          LET read == getVoxel(This, pos)
          IN ~read.undefined /\ read.ret # t_voxel_default
    /\ getNumVoxelLargerZero(This) = 1
    /\ getNumVoxelLargerZeroLod(This) = 2

\* C11: setCalculateLod(b) called while the flag already equals b changes
\* nothing: the flag, the LOD array with every sample stored in it, the main
\* array and both counters stay as they were and no assertion fails; so a
\* second setCalculateLod(true) keeps the array the first one allocated.
C11_SetCalculateLodIdempotent ==
    [][\A lod \in BOOLEAN :
          (last'.op = "setCalculateLod" /\ getCalculateLod(This) = lod
           /\ SetCalculateLod(lod))
              => /\ last'.assert = ""
                 /\ getCalculateLod(This') = getCalculateLod(This)
                 /\ getVoxelArrayLod(This') = getVoxelArrayLod(This)
                 /\ UNCHANGED members]_vars

\* setCalculateLod(true) was called with LOD enabled and a sample stored: the
\* sample is still there (enabling from disabled gives an array of defaults)
C11_Witness ==
    /\ last.op = "setCalculateLod"
    /\ last.assert = ""
    /\ getCalculateLod(This)
    /\ \E c \in lodCalls :
          LET read == getVoxelLod(This, c[1], c[2])
          IN ~read.undefined /\ read.ret # t_voxel_default

\* C12: immediately after create() both counters are 0, the LOD flag is false
\* and the LOD array is absent, so isEmpty() is true and, voxelCountSurface
\* being positive, isFull() is false.
C12_StateAfterCreate ==
    last.op = "create"
        => /\ getNumVoxelLargerZero(This) = 0
           /\ getNumVoxelLargerZeroLod(This) = 0
           /\ getCalculateLod(This) = FALSE
           /\ getVoxelArrayLod(This) = nullptr
           /\ isEmpty(This)
           /\ voxelCountSurface > 0 => ~isFull(This)

\* the instance create() returned, before any call on it: its main array
\* holds voxelCount default samples
C12_Witness ==
    /\ last.op = "create"
    /\ voxelCountSurface > 0
    /\ DOMAIN getVoxelArray(This) = 0 .. (voxelCount - 1)
    /\ \A pos \in ValidPositions : getVoxel(This, pos).ret = t_voxel_default

\* the names of the pairs a restore reads, in the order it reads them
ReadNames(steps) == [i \in 1 .. Len(steps) |-> steps[i].name]

\* C13: in a restore, whatever the receiver's LOD flag was, the persisted
\* flag is applied through setCalculateLod (the array allocated or dropped)
\* before the main payload is read, and the LOD payload is read after it
\* exactly when the restored flag is true, the LOD array being present then.
C13_RestoreOrder ==
    [][last'.op = "serialize" =>
        \A receiver \in Receivers :
          SaveAndRestore(receiver) =>
              LET readWrite == serialize_save(This).pairs
                  steps == serialize_load_steps(receiver, readWrite)
                  flag == readWrite[3].value
              IN /\ last'.assert = ""
                 /\ ReadNames(steps) =
                        <<"numVoxelLargerZero", "numVoxelLargerZeroLod",
                          "calculateLod", "voxels">>
                        \o (IF flag THEN <<"voxelsLod">> ELSE <<>>)
                 /\ \A i \in 1 .. Len(steps) : steps[i].name = readWrite[i].name
                 \* the flag is applied, by setCalculateLod, ...
                 /\ steps[3].acc =
                        setCalculateLod(steps[2].acc, getCalculateLod(This)).acc
                 /\ getCalculateLod(steps[3].acc) = flag
                 /\ (getVoxelArrayLod(steps[3].acc) # nullptr) <=> flag
                 \* ... before the main payload is read
                 /\ getVoxelArray(steps[3].acc) = getVoxelArray(receiver)
                 /\ getVoxelArray(steps[4].acc) = getVoxelArray(This)
                 \* the LOD payload is read into the array present by then
                 /\ flag => /\ getVoxelArrayLod(steps[4].acc) # nullptr
                            /\ getVoxelArrayLod(steps[5].acc) = getVoxelArrayLod(This)
                 /\ getCalculateLod(This') = flag
                 /\ (getVoxelArrayLod(This') # nullptr) <=> flag]_vars

\* an instance with LOD disabled and a sample in its main array has been
\* restored, which for the receivers with LOD enabled drops their array
C13_Witness ==
    /\ last.op = "serialize"
    /\ last.assert = ""
    /\ ~getCalculateLod(This)
    /\ getVoxelArrayLod(This) = nullptr
    /\ \E pos \in positions :
          LET read == getVoxel(This, pos)
          IN ~read.undefined /\ read.ret # t_voxel_default
    /\ \E receiver \in Receivers :
          /\ getCalculateLod(receiver)
          /\ serialize_load(receiver, serialize_save(This).pairs).acc = This

(***************************************************************************)
(* The two builds: a run is made in the build that checks BASSERT or in    *)
(* the one that compiles it out; its setVoxel calls use the position 0 and *)
(* one that breaks the precondition, or its setVoxelLod calls use the cell *)
(* 0 of face 0 and a call that breaks the precondition.                    *)
(***************************************************************************)
InitBuilds ==
    /\ Created
    /\ BASSERT_checked \in BOOLEAN
    /\ \/ /\ positions \in {{<<0, 0, 0>>, bad} : bad \in BadPositions}
          /\ lodCalls = {}
       \/ /\ positions = {}
          /\ lodCalls \in {{<<<<0, 0, 0>>, 0>>, bad} : bad \in BadLodCalls}

NextBuilds ==
    \/ \E pos \in positions, toSet \in t_voxel : SetVoxel(pos, toSet)
    \/ \E c \in lodCalls, toSet \in t_voxel : SetVoxelLod(c[1], toSet, c[2])
    \/ \E lod \in BOOLEAN : SetCalculateLod(lod)
    \/ \E pos \in positions : GetVoxel(pos)
    \/ \E c \in lodCalls : GetVoxelLod(c[1], c[2])

SpecBuilds == InitBuilds /\ [][NextBuilds]_vars

\* C14 (amended): in a build that checks BASSERT, a call that breaks a
\* precondition ends in the failed assertion with the main array, the LOD
\* array, the LOD flag and both counters as they were before it: setVoxel
\* with a component of pos outside -1 .. voxelLengthWithNormalCorrection-2,
\* setVoxelLod while LOD is disabled, and setVoxelLod with a face outside
\* 0 .. 5 or a position off the face's zero-plane.
C14_ViolationBeforeChange ==
    [][BASSERT_checked =>
          /\ \A pos \in positions \cap BadPositions, v \in t_voxel :
                (last'.op = "setVoxel" /\ SetVoxel(pos, v))
                    => (last'.assert = assertPos(pos) /\ last'.assert # ""
                        /\ UNCHANGED members)
          /\ \A c \in lodCalls, v \in t_voxel :
                (last'.op = "setVoxelLod" /\ ~getCalculateLod(This)
                 /\ SetVoxelLod(c[1], v, c[2]))
                    => (last'.assert # "" /\ UNCHANGED members)
          /\ \A c \in lodCalls \ BadLodCalls, v \in t_voxel :
                (last'.op = "setVoxelLod" /\ ~getCalculateLod(This)
                 /\ SetVoxelLod(c[1], v, c[2]))
                    => last'.assert = "m_calculateLod"
          /\ \A c \in lodCalls \cap BadLodCalls, v \in t_voxel :
                (last'.op = "setVoxelLod" /\ SetVoxelLod(c[1], v, c[2]))
                    => (last'.assert = calculateCoordsLod(c[1], c[2]).assert
                        /\ last'.assert # "" /\ UNCHANGED members)
          /\ last'.assert # "" => UNCHANGED members]_vars

\* in the build that checks BASSERT, setVoxelLod was called with LOD disabled
\* on an instance whose LOD counter had counted samples while it was enabled
C14_Witness ==
    /\ BASSERT_checked
    /\ last.op = "setVoxelLod"
    /\ last.assert = "m_calculateLod"
    /\ ~getCalculateLod(This)
    /\ getVoxelArrayLod(This) = nullptr
    /\ getNumVoxelLargerZeroLod(This) = MaxCount

\* C14 (as claimed): the same in every build, the one that compiles BASSERT
\* out included.
C14_ViolationBeforeChangeAnyBuild ==
    [][/\ \A pos \in positions \cap BadPositions, v \in t_voxel :
             (last'.op = "setVoxel" /\ SetVoxel(pos, v))
                 => (last'.assert = assertPos(pos) /\ last'.assert # ""
                     /\ UNCHANGED members)
       /\ \A c \in lodCalls, v \in t_voxel :
             (last'.op = "setVoxelLod" /\ ~getCalculateLod(This)
              /\ SetVoxelLod(c[1], v, c[2]))
                 => (last'.assert # "" /\ UNCHANGED members)
       /\ \A c \in lodCalls \cap BadLodCalls, v \in t_voxel :
             (last'.op = "setVoxelLod" /\ SetVoxelLod(c[1], v, c[2]))
                 => (last'.assert # "" /\ UNCHANGED members)]_vars

\* C15: every setCalculateLod(true) made while LOD is disabled leaves an LOD
\* array of exactly 6*voxelCountLod default samples: getVoxelLod returns the
\* default sample for every face and every position on its zero-plane,
\* whatever setVoxelLod stored while LOD was enabled before.
C15_ReenabledArrayFresh ==
    [][(~getCalculateLod(This) /\ SetCalculateLod(TRUE))
          => /\ last'.assert = ""
             /\ getCalculateLod(This')
             /\ getVoxelArrayLod(This') # nullptr
             /\ DOMAIN pointee(getVoxelArrayLod(This')) = 0 .. (6 * voxelCountLod - 1)
             /\ \A c \in ValidLodCalls :
                   getVoxelLod(This', c[1], c[2]).ret = t_voxel_default]_vars

\* LOD was enabled again after setVoxelLod had stored and counted samples in
\* an earlier array: no cell of the new array holds one
C15_Witness ==
    /\ last.op = "setCalculateLod"
    /\ last.assert = ""
    /\ getCalculateLod(This)
    /\ getNumVoxelLargerZeroLod(This) > 0
    /\ \A c \in ValidLodCalls : getVoxelLod(This, c[1], c[2]).ret = t_voxel_default
    /\ lodCalls # {}

(***************************************************************************)
(* The counters set from outside: the surface counter is set to the values *)
(* around voxelCountSurface too, and both counters to the largest int32;   *)
(* setVoxel and setVoxelLod count on from there.                           *)
(***************************************************************************)
SurfaceCounts == Counts \cup {voxelCountSurface - 1, voxelCountSurface, int32_max}
LodCounts == Counts \cup {int32_max}

SetVoxelCounting(pos, toSet) ==
    /\ Defined
    /\ LET r == setVoxel(This, pos, toSet)
       IN /\ (~r.undefined /\ r.acc.m_numVoxelLargerZero # m_numVoxelLargerZero)
                => r.acc.m_numVoxelLargerZero <= voxelCountSurface + 1
          /\ Returns("setVoxel", r, BOOLEAN)
    /\ Inputs

InitCount ==
    /\ Created
    /\ BASSERT_checked = TRUE
    /\ positions = GeneralPositions
    /\ lodCalls = GeneralLodCalls

NextCount ==
    \/ \E pos \in positions, toSet \in t_voxel : SetVoxelCounting(pos, toSet)
    \/ \E c \in lodCalls, toSet \in t_voxel : SetVoxelLod(c[1], toSet, c[2])
    \/ \E lod \in BOOLEAN : SetCalculateLod(lod)
    \/ \E toSet \in SurfaceCounts : SetNumVoxelLargerZero(toSet)
    \/ \E toSet \in LodCounts : SetNumVoxelLargerZeroLod(toSet)

SpecCount == InitCount /\ [][NextCount]_vars

\* C7 (as claimed): setVoxel(pos, v) adds exactly 1 to nonEmptyInSurface when
\* v is non-empty and pos is in the surface region, whatever was stored at
\* pos and whatever the counter holds, and leaves the counter as it was in
\* every other case; it never decrements it.
C7_CounterBump ==
    [][\A pos \in positions, v \in t_voxel :
          SetVoxelCounting(pos, v) =>
              /\ Defined'
              /\ m_numVoxelLargerZero' = m_numVoxelLargerZero
                    + (IF v >= 0 /\ pos \in SurfacePositions THEN 1 ELSE 0)
              /\ m_numVoxelLargerZero' >= m_numVoxelLargerZero]_vars

\* C16 (as claimed): with LOD enabled, setVoxelLod(pos, v, lod) adds exactly 1
\* to nonEmptyInLod when v is non-empty, whatever the face, the position, the
\* sample stored there and the counter's value, and leaves it as it was when
\* v is empty; it never decrements it and never changes nonEmptyInSurface.
C16_LodCounterBump ==
    [][\A c \in lodCalls, v \in t_voxel :
          (getCalculateLod(This) /\ SetVoxelLod(c[1], v, c[2]))
              => /\ Defined'
                 /\ last'.assert = ""
                 /\ getNumVoxelLargerZeroLod(This') =
                        getNumVoxelLargerZeroLod(This)
                            + (IF getInterpolation(v) >= 0 THEN 1 ELSE 0)
                 /\ getNumVoxelLargerZeroLod(This') >= getNumVoxelLargerZeroLod(This)
                 /\ getNumVoxelLargerZero(This') = getNumVoxelLargerZero(This)]_vars

\* C17: after setNumVoxelLargerZero(n) (setNumVoxelLargerZeroLod(n)) the
\* counter's getter returns n, with both arrays, the LOD flag and the other
\* counter as they were; and in every state isEmpty() holds exactly when
\* nonEmptyInSurface is 0 and isFull() exactly when it is voxelCountSurface,
\* whatever the stored samples and nonEmptyInLod are.
C17_CountersOverridable ==
    [][/\ \A n \in SurfaceCounts :
             SetNumVoxelLargerZero(n)
                 => /\ getNumVoxelLargerZero(This') = n
                    /\ UNCHANGED <<m_voxels, m_voxelsLod, m_calculateLod,
                                   m_numVoxelLargerZeroLod>>
       /\ \A n \in LodCounts :
             SetNumVoxelLargerZeroLod(n)
                 => /\ getNumVoxelLargerZeroLod(This') = n
                    /\ UNCHANGED <<m_voxels, m_voxelsLod, m_calculateLod,
                                   m_numVoxelLargerZero>>
       /\ isEmpty(This) <=> getNumVoxelLargerZero(This) = 0
       /\ isFull(This) <=> getNumVoxelLargerZero(This) = voxelCountSurface
       /\ Defined' =>
             /\ isEmpty(This') <=> getNumVoxelLargerZero(This') = 0
             /\ isFull(This') <=> getNumVoxelLargerZero(This') = voxelCountSurface]_vars

\* the surface counter was set to voxelCountSurface on an instance whose
\* samples are all empty and whose LOD counter is not 0: isFull() is true
C17_Witness ==
    /\ last.op = "setNumVoxelLargerZero"
    /\ isFull(This)
    /\ ~isEmpty(This)
    /\ \A pos \in ValidPositions : getInterpolation(getVoxel(This, pos).ret) < 0
    /\ getNumVoxelLargerZeroLod(This) > 0

\* the index of setVoxel and getVoxel is the affine map of the positions of
\* (-1 .. H-2)^3 one-to-one onto 0 .. voxelCount-1
MainIndexOneToOneOnto ==
    /\ \A p \in ValidPositions :
          /\ setVoxel_index(p) \in 0 .. (voxelCount - 1)
          /\ getVoxel_index(p) = setVoxel_index(p)
          /\ setVoxel_index(p) =
                (p[1] + 1) * voxelLengthWithNormalCorrection
                           * voxelLengthWithNormalCorrection
                + (p[2] + 1) * voxelLengthWithNormalCorrection + (p[3] + 1)
    /\ \A p \in ValidPositions, q \in ValidPositions :
          setVoxel_index(p) = setVoxel_index(q) => p = q
    /\ {setVoxel_index(p) : p \in ValidPositions} = 0 .. (voxelCount - 1)

\* C18: the index (x+1)*H*H + (y+1)*H + (z+1), H being
\* voxelLengthWithNormalCorrection, maps the positions of (-1 .. H-2)^3
\* one-to-one onto 0 .. voxelCount-1, so setVoxel and getVoxel stay inside the
\* array, and setVoxel(pos, v) leaves the sample at every other valid
\* position, the LOD array, the LOD flag and nonEmptyInLod as they were.
C18_MainIndexBijection ==
    [][\A pos \in positions, v \in t_voxel :
          SetVoxel(pos, v) =>
              /\ last'.assert = ""
              /\ MainIndexOneToOneOnto
              /\ setVoxel_index(pos) \in DOMAIN getVoxelArray(This)
              /\ DOMAIN getVoxelArray(This') = 0 .. (voxelCount - 1)
              \* every index but the written position's holds what it held:
              \* by MainIndexOneToOneOnto these are the other positions
              /\ LET before == This
                     after == This'
                 IN getVoxelArray(after) =
                       [getVoxelArray(before) EXCEPT
                           ![getVoxel_index(pos)] = getVoxel(after, pos).ret]
              /\ getVoxelArrayLod(This') = getVoxelArrayLod(This)
              /\ getCalculateLod(This') = getCalculateLod(This)
              /\ getNumVoxelLargerZeroLod(This') = getNumVoxelLargerZeroLod(This)]_vars

\* two positions that differ in y alone hold different samples that setVoxel
\* stored, and every other position holds the default one
C18_Witness ==
    /\ last.op = "setVoxel"
    /\ last.assert = ""
    /\ \E p \in positions, q \in positions :
          /\ p[1] = q[1] /\ p[2] # q[2] /\ p[3] # q[3]
          /\ getVoxel(This, p).ret # t_voxel_default
          /\ getVoxel(This, q).ret # t_voxel_default
          /\ getVoxel(This, p).ret # getVoxel(This, q).ret
          /\ \A other \in ValidPositions \ {p, q} :
                getVoxel(This, other).ret = t_voxel_default

\* the cells of the six planes: <<2-D coordinate, face>>
LodCells == (LodCoords \X LodCoords) \X Lods

\* the index of the 2-D setVoxelLod and getVoxelLod maps the cells of a face
\* into the face's own range of voxelCountLod indices, and no two cells of
\* the six planes onto one index
LodIndexOneToOneOnto ==
    /\ \A cell \in LodCells :
          /\ setVoxelLod_index(cell[1], cell[2])
                \in (cell[2] * voxelCountLod) .. ((cell[2] + 1) * voxelCountLod - 1)
          /\ getVoxelLod_index(cell[1], cell[2]) = setVoxelLod_index(cell[1], cell[2])
          /\ setVoxelLod_index(cell[1], cell[2]) =
                cell[2] * voxelCountLod + cell[1][1] * voxelLengthLod + cell[1][2]
    /\ \A cell \in LodCells, other \in LodCells :
          setVoxelLod_index(cell[1], cell[2]) = setVoxelLod_index(other[1], other[2])
              => cell = other

\* C19: for every setVoxelLod and getVoxelLod call that passes its assertions
\* the index lod*voxelCountLod + x*voxelLengthLod + y lies in the face's range
\* lod*voxelCountLod .. (lod+1)*voxelCountLod - 1, different (lod, x, y) give
\* different indices, and setVoxelLod on a face leaves every cell of the five
\* other faces, every other cell of its own face and the whole main array as
\* they were.
C19_LodPlanesIndependent ==
    [][\A c \in lodCalls, v \in t_voxel :
          (getCalculateLod(This) /\ SetVoxelLod(c[1], v, c[2])) =>
              LET before == This
                  after == This'
                  written == <<calculateCoordsLod(c[1], c[2]).index, c[2]>>
              IN /\ last'.assert = ""
                 /\ LodIndexOneToOneOnto
                 /\ written \in LodCells
                 /\ setVoxelLod_index(written[1], written[2])
                       \in DOMAIN pointee(getVoxelArrayLod(before))
                 /\ DOMAIN pointee(getVoxelArrayLod(after)) = 0 .. (voxelCountLodAll - 1)
                 \* every index but the written cell's holds what it held:
                 \* by LodIndexOneToOneOnto these are the other cells
                 /\ LET index_ == getVoxelLod_index(written[1], written[2])
                    IN getVoxelArrayLod(after) =
                          [getVoxelArrayLod(before) EXCEPT
                              ![1][index_] =
                                  getVoxelLod2(after, written[1], written[2]).ret]
                 /\ getVoxelArray(after) = getVoxelArray(before)]_vars

\* the cells with the same 2-D coordinate on the two faces of one axis hold
\* different samples that setVoxelLod stored
C19_Witness ==
    /\ last.op = "setVoxelLod"
    /\ last.assert = ""
    /\ getCalculateLod(This)
    /\ \E c \in lodCalls, d \in lodCalls :
          /\ c[2] # d[2]
          /\ c[2] \div 2 = d[2] \div 2
          /\ calculateCoordsLod(c[1], c[2]).index = calculateCoordsLod(d[1], d[2]).index
          /\ getVoxelLod(This, c[1], c[2]).ret # t_voxel_default
          /\ getVoxelLod(This, d[1], d[2]).ret # t_voxel_default
          /\ getVoxelLod(This, c[1], c[2]).ret # getVoxelLod(This, d[1], d[2]).ret

====
